---- MODULE Spec2Model ----
(***************************************************************************)
(* Model of postprocess_qa_predictions (src/ADL_HW1/QA.py, lines 32-277):  *)
(* the conversion of per-feature start/end logits into answer strings.     *)
(*                                                                         *)
(* Conventions.  Python lists and arrays are TLA+ sequences; a Python      *)
(* index i is position i + 1 of the sequence, and every index kept in the  *)
(* state (example_index, feature indices, token indices, character         *)
(* offsets) is the 0-based Python value.  A string is the sequence of its  *)
(* characters, so that slicing is SubSeq.  Logits are small integers.      *)
(***************************************************************************)
EXTENDS Integers, Sequences, FiniteSets, TLC

VARIABLES
    examples,                   \* argument: sequence of [id, relevant]
    features,                   \* argument: sequence of [example_id, offset_mapping, token_is_max_context]
    context_list,               \* argument: sequence of context strings
    predictions,                \* argument: the tuple (all_start_logits, all_end_logits)
    version_2_with_negative,    \* argument
    n_best_size,                \* argument
    max_answer_length,          \* argument
    null_score_diff_threshold,  \* argument
    argsort_stable,             \* how this build's np.argsort orders equal keys
    pc,                         \* "start", "loop", "returned" or "raised"
    error,                      \* the exception raised, "none" while there is none
    example_index,              \* the loop variable of line 105
    null_score,                 \* the local of line 169: <<>> while unbound, else <<value>>
    locals,                     \* per example id, the locals of its pass at line 180
    all_predictions,            \* the dictionary of line 95
    all_nbest_json,             \* the dictionary of line 96
    scores_diff_json,           \* the dictionary of line 98
    result,                     \* what the call returned: <<>> until it returns
    previous,                   \* the outcome of an earlier call with these arguments: <<>> if none
    max_eval_samples,           \* main: args.max_eval_samples, <<>> for None, else <<N>>
    start_or_end_logits,        \* create_and_fill_np_array: the list of batches of logit rows
    step,                       \* create_and_fill_np_array: the local of line 1266
    logits_concat,              \* create_and_fill_np_array: the array of line 1268, <<>> before it
    batch_index                 \* create_and_fill_np_array: the loop variable i of line 1270

inputs == <<examples, features, context_list, predictions, version_2_with_negative,
            n_best_size, max_answer_length, null_score_diff_threshold, argsort_stable>>

vars == <<examples, features, context_list, predictions, version_2_with_negative,
          n_best_size, max_answer_length, null_score_diff_threshold, argsort_stable,
          pc, error, example_index, null_score, locals,
          all_predictions, all_nbest_json, scores_diff_json, result, previous,
          max_eval_samples, start_or_end_logits, step, logits_concat, batch_index>>

(* The state of main and of create_and_fill_np_array, which a call of      *)
(* postprocess_qa_predictions does not see.                                *)
outside == <<max_eval_samples, start_or_end_logits, step, logits_concat, batch_index>>

----------------------------------------------------------------------------
(* Bounds of the generated inputs.                                         *)

MaxLogit == 1
MaxNBest == 2
MaxFeatures == 2

(* Defaults of the keyword arguments.                                      *)
DefaultNBestSize == 20
DefaultMaxAnswerLength == 30

----------------------------------------------------------------------------
(* Values.                                                                 *)

None == [isNone |-> TRUE, span |-> <<>>]
Span(a, b) == [isNone |-> FALSE, span |-> <<a, b>>]
Short == [isNone |-> FALSE, span |-> <<>>]

EmptyText == <<>>
PlaceholderText == <<"e", "m", "p", "t", "y">>

Min(a, b) == IF a < b THEN a ELSE b

(* context[a:b] for non-negative a and b: both ends are clamped to the     *)
(* length of the string and an inverted range is empty.                    *)
Slice(context, a, b) ==
    LET lo == Min(a, Len(context))
        hi == Min(b, Len(context))
    IN  IF lo >= hi THEN EmptyText ELSE SubSeq(context, lo + 1, hi)

RECURSIVE Concat(_)
Concat(seqs) == IF seqs = <<>> THEN <<>> ELSE Head(seqs) \o Concat(Tail(seqs))

RemoveAt(s, k) == SubSeq(s, 1, k - 1) \o SubSeq(s, k + 1, Len(s))

(* 1000000 * exp(-d), rounded down, for the score differences that occur.  *)
ExpTable == <<1000000, 367879, 135335, 49787, 18315, 6737, 2478, 911, 335, 123, 45, 16, 6>>
Exp(d) == IF d + 1 <= Len(ExpTable) THEN ExpTable[d + 1] ELSE 0

RECURSIVE SumSeq(_)
SumSeq(s) == IF s = <<>> THEN 0 ELSE Head(s) + SumSeq(Tail(s))

RECURSIVE MaxSeq(_)
MaxSeq(s) == IF Len(s) = 1 THEN s[1]
             ELSE LET m == MaxSeq(Tail(s)) IN IF s[1] >= m THEN s[1] ELSE m

----------------------------------------------------------------------------
(* Lines 88-92: the map from an example to the indices of its features.    *)

(* example_id_to_index: a dictionary comprehension, so the last example    *)
(* holding an id owns it.                                                  *)
example_id_to_index(id) ==
    CHOOSE i \in 0..(Len(examples) - 1) :
        /\ examples[i + 1].id = id
        /\ \A j \in 0..(Len(examples) - 1) : examples[j + 1].id = id => j <= i

(* features_per_example[ei]: feature indices in ascending order.           *)
RECURSIVE FeaturesFrom(_, _)
FeaturesFrom(ei, i) ==
    IF i >= Len(features) THEN <<>>
    ELSE (IF example_id_to_index(features[i + 1].example_id) = ei THEN <<i>> ELSE <<>>)
         \o FeaturesFrom(ei, i + 1)

(* features_per_example without the grouping: every feature, whatever its  *)
(* example_id.                                                             *)
features_of_any_example(ei) == [i \in 1..Len(features) |-> i - 1]

features_per_example(ei) == FeaturesFrom(ei, 0)

----------------------------------------------------------------------------
(* Lines 113-165: the candidates of one feature.                           *)

all_start_logits == predictions[1]
all_end_logits == predictions[2]

(* str(i) for the token indices that occur.                                *)
ToStr(i) == <<"0", "1", "2", "3", "4", "5", "6", "7", "8", "9">>[i + 1]

(* TopIndexes with an order of equal logits that changes from one call to  *)
(* the next.                                                               *)
RECURSIVE TopIndexesPerCall(_, _, _)
TopIndexesPerCall(logits, remaining, n) ==
    IF n <= 0 \/ remaining = {} THEN <<>>
    ELSE LET best == CHOOSE i \in remaining : \A j \in remaining :
                        \/ logits[i + 1] > logits[j + 1]
                        \/ /\ logits[i + 1] = logits[j + 1]
                           /\ IF previous = <<>> THEN i >= j ELSE i <= j
         IN  <<best>> \o TopIndexesPerCall(logits, remaining \ {best}, n - 1)

(* np.argsort(logits)[-1 : -n - 1 : -1].tolist(): the n positions of the   *)
(* greatest logits, greatest first.  A stable argsort lists equal logits   *)
(* in ascending index, so the reversed slice lists them in descending      *)
(* index; the other order is what an unstable sort may give.               *)
RECURSIVE TopIndexes(_, _, _)
TopIndexes(logits, remaining, n) ==
    IF n <= 0 \/ remaining = {} THEN <<>>
    ELSE LET best == CHOOSE i \in remaining : \A j \in remaining :
                        \/ logits[i + 1] > logits[j + 1]
                        \/ /\ logits[i + 1] = logits[j + 1]
                           /\ IF argsort_stable THEN i >= j ELSE i <= j
         IN  <<best>> \o TopIndexes(logits, remaining \ {best}, n - 1)

(* Shortlist without the reversal of the slice: the positions of the least *)
(* logits, least first.                                                    *)
ShortlistLowest(logits) ==
    LET all == TopIndexes(logits, 0..(Len(logits) - 1), Len(logits))
    IN  [k \in 1..Min(n_best_size, Len(logits)) |-> all[Len(logits) + 1 - k]]

(* Shortlist with the slice [-1 : -n_best_size : -1], one position short.  *)
ShortlistOneShort(logits) == TopIndexes(logits, 0..(Len(logits) - 1), n_best_size - 1)

Shortlist(logits) == TopIndexes(logits, 0..(Len(logits) - 1), n_best_size)

(* LogitsAfterPass with the start logits of the features sorted where they *)
(* are stored, as ndarray.sort() does, instead of np.argsort.              *)
LogitsSortedInPlace(fis) ==
    LET sorted(row) == [k \in 1..Len(row) |->
                           row[TopIndexes(row, 0..(Len(row) - 1), Len(row))[Len(row) + 1 - k] + 1]]
        touched(f) == \E k \in 1..Len(fis) : fis[k] = f - 1
    IN  <<[f \in 1..Len(all_start_logits) |->
              IF touched(f) THEN sorted(all_start_logits[f]) ELSE all_start_logits[f]],
          all_end_logits>>

(* Lines 115-136: the argument `predictions` after the features fis were   *)
(* read.  Rows are indexed and np.argsort returns a new array of           *)
(* positions; nothing is stored in the two arrays.                         *)
LogitsAfterPass(fis) == predictions

(* Lines 141-148.                                                          *)
OutOfScope(offset_mapping, start_index, end_index) ==
    \/ start_index >= Len(offset_mapping)
    \/ end_index >= Len(offset_mapping)
    \/ offset_mapping[start_index + 1].isNone
    \/ Len(offset_mapping[start_index + 1].span) < 2
    \/ offset_mapping[end_index + 1].isNone
    \/ Len(offset_mapping[end_index + 1].span) < 2

(* BadLength with the length counted one short.                            *)
BadLengthOffByOne(start_index, end_index) ==
    end_index < start_index \/ end_index - start_index > max_answer_length

(* BadLength with >= for >: a span of max_answer_length tokens is dropped. *)
BadLengthExclusive(start_index, end_index) ==
    end_index < start_index \/ end_index - start_index + 1 >= max_answer_length

(* Line 151.                                                               *)
BadLength(start_index, end_index) ==
    end_index < start_index \/ end_index - start_index + 1 > max_answer_length

(* NotMaxContext with True as the default of a missing key.                *)
NotMaxContextMissingPasses(token_is_max_context, start_index) ==
    /\ ~token_is_max_context.isNone
    /\ ~(IF ToStr(start_index) \in DOMAIN token_is_max_context.map
         THEN token_is_max_context.map[ToStr(start_index)]
         ELSE TRUE)

(* Line 155: token_is_max_context.get(str(start_index), False).            *)
NotMaxContext(token_is_max_context, start_index) ==
    /\ ~token_is_max_context.isNone
    /\ ~(IF ToStr(start_index) \in DOMAIN token_is_max_context.map
         THEN token_is_max_context.map[ToStr(start_index)]
         ELSE FALSE)

Discarded(feature, start_index, end_index) ==
    \/ OutOfScope(feature.offset_mapping, start_index, end_index)
    \/ BadLength(start_index, end_index)
    \/ NotMaxContext(feature.token_is_max_context, start_index)

(* Candidate with the two ends of the character span exchanged.            *)
CandidateSwapped(feature_index, start_index, end_index) ==
    LET offset_mapping == features[feature_index + 1].offset_mapping
        start_logits == all_start_logits[feature_index + 1]
        end_logits == all_end_logits[feature_index + 1]
    IN  [offsets |-> <<offset_mapping[start_index + 1].span[2],
                       offset_mapping[end_index + 1].span[1]>>,
         score |-> start_logits[start_index + 1] + end_logits[end_index + 1],
         start_logit |-> start_logits[start_index + 1],
         end_logit |-> end_logits[end_index + 1],
         origin |-> "span",
         feature_index |-> feature_index,
         start_index |-> start_index,
         end_index |-> end_index]

(* Candidate with the end logit read at the start index.                   *)
CandidateEndLogitAtStart(feature_index, start_index, end_index) ==
    LET offset_mapping == features[feature_index + 1].offset_mapping
        start_logits == all_start_logits[feature_index + 1]
        end_logits == all_end_logits[feature_index + 1]
    IN  [offsets |-> <<offset_mapping[start_index + 1].span[1],
                       offset_mapping[end_index + 1].span[2]>>,
         score |-> start_logits[start_index + 1] + end_logits[start_index + 1],
         start_logit |-> start_logits[start_index + 1],
         end_logit |-> end_logits[start_index + 1],
         origin |-> "span",
         feature_index |-> feature_index,
         start_index |-> start_index,
         end_index |-> end_index]

(* Lines 158-165.  origin, feature_index, start_index and end_index record *)
(* the loop variables at the append; the dictionary holds the other four.  *)
Candidate(feature_index, start_index, end_index) ==
    LET offset_mapping == features[feature_index + 1].offset_mapping
        start_logits == all_start_logits[feature_index + 1]
        end_logits == all_end_logits[feature_index + 1]
    IN  [offsets |-> <<offset_mapping[start_index + 1].span[1],
                       offset_mapping[end_index + 1].span[2]>>,
         score |-> start_logits[start_index + 1] + end_logits[end_index + 1],
         start_logit |-> start_logits[start_index + 1],
         end_logit |-> end_logits[end_index + 1],
         origin |-> "span",
         feature_index |-> feature_index,
         start_index |-> start_index,
         end_index |-> end_index]

(* Lines 135-165: the pairs of the two shortlists in loop order, filtered. *)
FeatureCandidates(feature_index) ==
    LET start_indexes == Shortlist(all_start_logits[feature_index + 1])
        end_indexes == Shortlist(all_end_logits[feature_index + 1])
        ne == Len(end_indexes)
        pairs == [k \in 1..(Len(start_indexes) * ne) |->
                     [s |-> start_indexes[((k - 1) \div ne) + 1],
                      e |-> end_indexes[((k - 1) % ne) + 1]]]
        passes(p) == ~Discarded(features[feature_index + 1], p.s, p.e)
        valid == SelectSeq(pairs, passes)
    IN  [k \in 1..Len(valid) |-> Candidate(feature_index, valid[k].s, valid[k].e)]

(* Lines 125-132: the null prediction of one feature.                      *)
FeatureNull(feature_index) ==
    LET start_logits == all_start_logits[feature_index + 1]
        end_logits == all_end_logits[feature_index + 1]
    IN  [offsets |-> <<0, 0>>,
         score |-> start_logits[1] + end_logits[1],
         start_logit |-> start_logits[1],
         end_logit |-> end_logits[1],
         origin |-> "null",
         feature_index |-> feature_index,
         start_index |-> 0,
         end_index |-> 0]

(* Replaces with >= for >: a later feature of the same score replaces.     *)
ReplacesOnTie(current, feature_null_score) == current.score >= feature_null_score

(* Line 126: a later feature replaces the minimum only when strictly less. *)
Replaces(current, feature_null_score) == current.score > feature_null_score

(* min_null_prediction after the features fis: <<>> is None.               *)
RECURSIVE MinNullFrom(_, _)
MinNullFrom(current, fis) ==
    IF fis = <<>> THEN current
    ELSE LET fnull == FeatureNull(Head(fis))
         IN  MinNullFrom(IF current = <<>> \/ Replaces(current[1], fnull.score)
                         THEN <<fnull>> ELSE current,
                         Tail(fis))

min_null_prediction(fis) == MinNullFrom(<<>>, fis)

----------------------------------------------------------------------------
(* Lines 166-180: pooling, ranking, truncation, the null prediction.       *)

(* Lines 166-168.                                                          *)
prelim_predictions(fis, min_null) ==
    LET spans == Concat([k \in 1..Len(fis) |-> FeatureCandidates(fis[k])])
    IN  IF version_2_with_negative /\ min_null # <<>>
        THEN spans \o min_null ELSE spans

(* SortedByScore without the sort: the candidates stay in append order.    *)
Unsorted(s) == s

(* sorted(..., key=score, reverse=True): stable, so equal scores keep the  *)
(* order of the appends.                                                   *)
RECURSIVE SortedByScore(_)
SortedByScore(s) ==
    IF s = <<>> THEN <<>>
    ELSE LET k == CHOOSE i \in 1..Len(s) :
                     /\ \A j \in 1..Len(s) : s[i].score >= s[j].score
                     /\ \A j \in 1..(i - 1) : s[j].score < s[i].score
         IN  <<s[k]>> \o SortedByScore(RemoveAt(s, k))

(* Truncate without the slice: every pooled candidate is kept.             *)
TruncateKeepsAll(s) == s

(* Truncate with the slice taken at the other end: [-n_best_size:].        *)
TruncateKeepsLast(s) == SubSeq(s, Len(s) - Min(Len(s), n_best_size) + 1, Len(s))

(* [:n_best_size]                                                          *)
Truncate(s) == SubSeq(s, 1, Min(Len(s), n_best_size))

(* Line 178: not any(p["offsets"] == (0, 0) for p in predictions).         *)
NullMissing(preds) == ~\E k \in 1..Len(preds) : preds[k].offsets = <<0, 0>>

(* Line 172.                                                               *)
TopPredictions(prelim) == Truncate(SortedByScore(prelim))

(* KeptPredictions with the slice [:n_best_size] taken after the null      *)
(* prediction was put back.                                                *)
KeptPredictionsThenTruncated(top, min_null) ==
    Truncate(IF /\ version_2_with_negative
                /\ min_null # <<>>
                /\ NullMissing(top)
             THEN top \o min_null ELSE top)

(* KeptPredictions with the null prediction put back at the front.         *)
KeptPredictionsNullFirst(top, min_null) ==
    IF /\ version_2_with_negative
       /\ min_null # <<>>
       /\ NullMissing(top)
    THEN min_null \o top ELSE top

(* Lines 175-180.                                                          *)
KeptPredictions(top, min_null) ==
    IF /\ version_2_with_negative
       /\ min_null # <<>>
       /\ NullMissing(top)
    THEN top \o min_null ELSE top

----------------------------------------------------------------------------
(* Lines 184-210: the text, the fake prediction, the probabilities.        *)

(* WithText reading the first context whatever example["relevant"] is.     *)
WithTextFirstContext(ei, preds) ==
    LET context == context_list[1]
    IN  [k \in 1..Len(preds) |->
            [text |-> Slice(context, preds[k].offsets[1], preds[k].offsets[2]),
             start_logit |-> preds[k].start_logit,
             end_logit |-> preds[k].end_logit,
             score |-> preds[k].score]]

(* Lines 184-193: offsets is popped, text is added.                        *)
WithText(ei, preds) ==
    LET context == context_list[examples[ei + 1].relevant + 1]
    IN  [k \in 1..Len(preds) |->
            [text |-> Slice(context, preds[k].offsets[1], preds[k].offsets[2]),
             start_logit |-> preds[k].start_logit,
             end_logit |-> preds[k].end_logit,
             score |-> preds[k].score]]

(* NeedsFake as the comment of lines 195-196 words it: not a single       *)
(* prediction of non-empty text.                                           *)
NeedsFakeNoneNonEmpty(preds) ==
    \A k \in 1..Len(preds) : preds[k].text = EmptyText

(* Line 197.                                                               *)
NeedsFake(preds) ==
    Len(preds) = 0 \/ (Len(preds) = 1 /\ preds[1].text = EmptyText)

(* FakePrediction with an empty text.                                      *)
FakeWithoutText ==
    [text |-> EmptyText, start_logit |-> 0, end_logit |-> 0, score |-> 0]

(* Line 198.                                                               *)
FakePrediction ==
    [text |-> PlaceholderText, start_logit |-> 0, end_logit |-> 0, score |-> 0]

(* Lines 195-198.                                                          *)
Guarded(preds) == IF NeedsFake(preds) THEN <<FakePrediction>> \o preds ELSE preds

(* WithProbability without the division by the sum of line 206.           *)
WithProbabilityUnnormalised(preds) ==
    LET scores == [k \in 1..Len(preds) |-> preds[k].score]
        exp_scores == [k \in 1..Len(preds) |-> Exp(MaxSeq(scores) - scores[k])]
    IN  [k \in 1..Len(preds) |->
            [text |-> preds[k].text,
             start_logit |-> preds[k].start_logit,
             end_logit |-> preds[k].end_logit,
             probability |-> <<exp_scores[k], Exp(0)>>]]

(* Lines 204-210: exp(score - max) / sum, a probability <<numerator,       *)
(* denominator>>; score is popped, probability is added.                   *)
WithProbability(preds) ==
    LET scores == [k \in 1..Len(preds) |-> preds[k].score]
        exp_scores == [k \in 1..Len(preds) |-> Exp(MaxSeq(scores) - scores[k])]
    IN  [k \in 1..Len(preds) |->
            [text |-> preds[k].text,
             start_logit |-> preds[k].start_logit,
             end_logit |-> preds[k].end_logit,
             probability |-> <<exp_scores[k], SumSeq(exp_scores)>>]]

(* The list `predictions` of one example at line 210.                      *)
FinalPredictions(ei, keptPreds) == WithProbability(Guarded(WithText(ei, keptPreds)))

----------------------------------------------------------------------------
(* Lines 215-232: the answer.                                              *)

(* Lines 220-222: the index the while loop stops at; Len(preds) when every *)
(* text is empty, where predictions[i] raises IndexError.                  *)
RECURSIVE ScanFrom(_, _)
ScanFrom(preds, i) ==
    IF i >= Len(preds) THEN i
    ELSE IF preds[i + 1].text = EmptyText THEN ScanFrom(preds, i + 1) ELSE i

(* Line 226.                                                               *)
ScoreDiff(null, best_non_null_pred) ==
    null - best_non_null_pred.start_logit - best_non_null_pred.end_logit

(* Line 228.                                                               *)
NullSelected(score_diff) == score_diff > null_score_diff_threshold

(* Lines 166-169: null_score after the assignment, if it is made.          *)
NullScoreAfter(min_null) ==
    IF version_2_with_negative /\ min_null # <<>>
    THEN <<min_null[1].score>> ELSE null_score

(* Line 116: all_end_logits[feature_index] with no such row.               *)
NoEndLogits(fis) == \E k \in 1..Len(fis) : fis[k] >= Len(all_end_logits)

(* The exception one pass of the loop body raises after line 210, "none"   *)
(* if it completes.  Line 221: the scan leaves the list.  Line 226:        *)
(* null_score was never assigned.                                          *)
AnswerError(preds, null) ==
    IF ~version_2_with_negative THEN "none"
    ELSE IF ScanFrom(preds, 0) >= Len(preds) THEN "IndexError"
    ELSE IF null = <<>> THEN "UnboundLocalError"
    ELSE "none"

(* Lines 220-226.                                                          *)
BestNonNull(preds) == preds[ScanFrom(preds, 0) + 1]

(* Lines 215-232.                                                          *)
Answer(preds, null) ==
    IF ~version_2_with_negative THEN preds[1].text
    ELSE IF NullSelected(ScoreDiff(null[1], BestNonNull(preds)))
         THEN EmptyText ELSE BestNonNull(preds).text

----------------------------------------------------------------------------
(* The calls that are modelled.                                            *)

NoMaxContext == [isNone |-> TRUE, map |-> <<>>]
MaxContext(m) == [isNone |-> FALSE, map |-> m]

ContextA == <<"a", "b", "c", "d">>
ContextB == <<"x", "y">>
ContextHello == <<"h", "e", "l", "l", "o", " ", "w", "o", "r", "l", "d">>

ExamplePool == <<[id |-> "q1", relevant |-> 0], [id |-> "q2", relevant |-> 1]>>

(* Offset mappings of a two-token feature over ContextA: a special token   *)
(* and a context token; two context tokens; a (0, 0) entry; empty spans;   *)
(* entries out of order and past the end of the context; no context token  *)
(* and an entry that is too short; fewer entries than logits.              *)
OffsetMappings ==
    { <<None, Span(0, 2)>>,
      <<Span(0, 2), Span(2, 4)>>,
      <<Span(0, 0), Span(0, 2)>>,
      <<Span(1, 1), Span(2, 2)>>,
      <<Span(3, 9), Span(0, 2)>>,
      <<None, Short>>,
      <<Span(0, 2)>> }

MaxContexts ==
    { NoMaxContext,
      MaxContext(("0" :> TRUE) @@ ("1" :> FALSE)),
      MaxContext("1" :> TRUE) }

LogitVectors == [1..2 -> 0..MaxLogit]

(* The features of the one-feature calls: every offset mapping without     *)
(* token_is_max_context, and two context tokens with each of them.         *)
GridFeatures ==
    { [example_id |-> "q1", offset_mapping |-> om, token_is_max_context |-> NoMaxContext] :
        om \in OffsetMappings }
    \cup
    { [example_id |-> "q1", offset_mapping |-> <<Span(0, 2), Span(2, 4)>>,
       token_is_max_context |-> tim] : tim \in MaxContexts }

(* Features with their logits, for the calls with several features.        *)
FeatureKinds ==
    { [offset_mapping |-> <<None, Span(0, 2)>>, start_logits |-> <<1, 2>>, end_logits |-> <<0, 2>>],
      [offset_mapping |-> <<None, Span(2, 4)>>, start_logits |-> <<0, 1>>, end_logits |-> <<1, 0>>],
      [offset_mapping |-> <<None, None>>, start_logits |-> <<2, 0>>, end_logits |-> <<2, 0>>],
      [offset_mapping |-> <<Span(0, 0), Span(0, 2)>>, start_logits |-> <<2, 0>>, end_logits |-> <<2, 1>>] }

(* The two logit arrays may hold one row less or one row more than there   *)
(* are features: <<change of all_start_logits, change of all_end_logits>>. *)
Shapes == { <<0, 0>>, <<0, -1>>, <<0, 1>>, <<-1, 0>>, <<1, 0>> }

Reshape(rows, d) ==
    IF d < 0 THEN SubSeq(rows, 1, Len(rows) - 1)
    ELSE IF d > 0 THEN Append(rows, <<0, 0>>)
    ELSE rows

NotStarted ==
    /\ pc = "start"
    /\ error = "none"
    /\ example_index = 0
    /\ null_score = <<>>
    /\ locals = <<>>
    /\ all_predictions = <<>>
    /\ all_nbest_json = <<>>
    /\ scores_diff_json = <<>>
    /\ result = <<>>
    /\ previous = <<>>
    /\ max_eval_samples = <<>>
    /\ start_or_end_logits = <<>>
    /\ step = 0
    /\ logits_concat = <<>>
    /\ batch_index = 0

(* One example with one feature; offsets, logits and arguments vary.       *)
InitGrid ==
    /\ (argsort_stable = TRUE \/ argsort_stable = FALSE)
    /\ examples = <<ExamplePool[1]>>
    /\ context_list = <<ContextA, ContextB>>
    /\ \E f \in GridFeatures : features = <<f>>
    /\ \E sl \in LogitVectors, el \in LogitVectors : predictions = <<(<<sl>>), (<<el>>)>>
    /\ version_2_with_negative \in BOOLEAN
    /\ n_best_size \in 1..MaxNBest
    /\ max_answer_length \in {1, 2}
    /\ null_score_diff_threshold = 0
    /\ NotStarted

(* One or two examples with up to MaxFeatures features between them; the   *)
(* logit arrays may not match the features.                                *)
InitBatch ==
    /\ \E k \in 1..Len(ExamplePool) : examples = SubSeq(ExamplePool, 1, k)
    /\ context_list = <<ContextA, ContextB>>
    /\ \E n \in 0..MaxFeatures :
       \E kinds \in [1..n -> FeatureKinds] :
       \E owners \in [1..n -> {examples[i].id : i \in 1..Len(examples)}] :
       \E shape \in Shapes :
          /\ features = [i \in 1..n |->
                            [example_id |-> owners[i],
                             offset_mapping |-> kinds[i].offset_mapping,
                             token_is_max_context |-> NoMaxContext]]
          /\ predictions =
                <<Reshape([i \in 1..n |-> kinds[i].start_logits], shape[1]),
                  Reshape([i \in 1..n |-> kinds[i].end_logits], shape[2])>>
    /\ version_2_with_negative \in BOOLEAN
    /\ n_best_size \in 1..MaxNBest
    /\ max_answer_length = DefaultMaxAnswerLength
    /\ null_score_diff_threshold = 0
    /\ argsort_stable = TRUE
    /\ NotStarted

(* The scenario of the specification: one feature over "hello world".      *)
InitScenario ==
    /\ (argsort_stable = TRUE \/ argsort_stable = FALSE)
    /\ examples = <<[id |-> "q1", relevant |-> 0]>>
    /\ context_list = <<ContextHello>>
    /\ features = <<[example_id |-> "q1",
                     offset_mapping |-> <<None, Span(0, 5), Span(6, 11), None>>,
                     token_is_max_context |-> NoMaxContext]>>
    /\ predictions = <<(<<(<<0, 5, 1, 0>>)>>), (<<(<<0, 1, 6, 0>>)>>)>>
    /\ version_2_with_negative \in BOOLEAN
    /\ n_best_size = DefaultNBestSize
    /\ max_answer_length \in {1, 5}
    /\ null_score_diff_threshold = 0
    /\ NotStarted

Init == InitGrid \/ InitBatch \/ InitScenario

----------------------------------------------------------------------------
(* The call.                                                               *)

(* Lines 81-86.                                                            *)
BadArguments ==
    Len(predictions) # 2 \/ Len(predictions[1]) # Len(features)

(* Lines 81-102: the checks, the feature map, the empty dictionaries.      *)
Enter ==
    /\ pc = "start"
    /\ IF BadArguments
       THEN pc' = "raised" /\ error' = "ValueError"
       ELSE pc' = "loop" /\ error' = error
    /\ UNCHANGED <<inputs, example_index, null_score, locals,
                   all_predictions, all_nbest_json, scores_diff_json, result, previous,
                   outside>>

(* Lines 105-238: one pass of the loop over the examples.                  *)
ProcessExample ==
    /\ pc = "loop"
    /\ example_index < Len(examples)
    /\ LET ei == example_index
           id == examples[ei + 1].id
           fis == features_per_example(ei)
           min_null == min_null_prediction(fis)
           prelim == prelim_predictions(fis, min_null)
           top == TopPredictions(prelim)
           keptPreds == KeptPredictions(top, min_null)
           preds == FinalPredictions(ei, keptPreds)
           null == NullScoreAfter(min_null)
       IN  /\ IF NoEndLogits(fis)
              THEN /\ pc' = "raised"
                   /\ error' = "IndexError"
                   /\ UNCHANGED <<example_index, null_score, locals, all_predictions,
                                  all_nbest_json, scores_diff_json>>
              ELSE IF AnswerError(preds, null) # "none"
              THEN /\ pc' = "raised"
                   /\ error' = AnswerError(preds, null)
                   /\ null_score' = null
                   /\ UNCHANGED <<example_index, locals, all_predictions, all_nbest_json,
                                  scores_diff_json>>
              ELSE /\ pc' = pc
                   /\ error' = error
                   /\ null_score' = null
                   /\ locals' = (id :> [feature_indices |-> fis,
                                         min_null_prediction |-> min_null,
                                         prelim_predictions |-> prelim,
                                         top |-> top,
                                         predictions |-> keptPreds]) @@ locals
                   /\ all_predictions' = (id :> Answer(preds, null)) @@ all_predictions
                   /\ all_nbest_json' = (id :> preds) @@ all_nbest_json
                   /\ scores_diff_json' =
                         IF version_2_with_negative
                         THEN (id :> ScoreDiff(null[1], BestNonNull(preds))) @@ scores_diff_json
                         ELSE scores_diff_json
                   /\ example_index' = example_index + 1
           /\ predictions' = LogitsAfterPass(fis)
    /\ UNCHANGED <<examples, features, context_list, version_2_with_negative,
                   n_best_size, max_answer_length, null_score_diff_threshold,
                   argsort_stable, result, previous, outside>>

(* ReturnValue as a tuple of the dictionaries that were filled.            *)
ReturnsEveryMapping ==
    IF version_2_with_negative
    THEN <<all_predictions, all_nbest_json, scores_diff_json>>
    ELSE <<all_predictions, all_nbest_json>>

(* Line 277: the values the return statement lists.                        *)
ReturnValue == <<all_predictions>>

(* Line 277.                                                               *)
Return ==
    /\ pc = "loop"
    /\ example_index = Len(examples)
    /\ pc' = "returned"
    /\ result' = ReturnValue
    /\ UNCHANGED <<inputs, error, example_index, null_score, locals,
                   all_predictions, all_nbest_json, scores_diff_json, previous, outside>>

Next == Enter \/ ProcessExample \/ Return

Spec == Init /\ [][Next]_vars

----------------------------------------------------------------------------
(* Two calls with the same arguments.                                      *)

(* What a finished call leaves: how it ended, the three dictionaries and   *)
(* the value it returned.                                                  *)
Outcome ==
    [pc |-> pc, error |-> error, all_predictions |-> all_predictions,
     all_nbest_json |-> all_nbest_json, scores_diff_json |-> scores_diff_json,
     result |-> result]

(* The function is called again with the arguments of the finished call:   *)
(* every local of lines 83-238 is new, null_score is unbound again.        *)
CallAgain ==
    /\ pc \in {"returned", "raised"}
    /\ previous = <<>>
    /\ previous' = <<Outcome>>
    /\ pc' = "start"
    /\ error' = "none"
    /\ example_index' = 0
    /\ null_score' = <<>>
    /\ locals' = <<>>
    /\ all_predictions' = <<>>
    /\ all_nbest_json' = <<>>
    /\ scores_diff_json' = <<>>
    /\ result' = <<>>
    /\ UNCHANGED <<inputs, outside>>

(* The calls that are repeated: the one-feature calls with the largest     *)
(* shortlist, the calls with several features, the scenario.               *)
InitTwice ==
    \/ InitGrid /\ n_best_size = MaxNBest /\ max_answer_length = 2
    \/ InitBatch
    \/ InitScenario

NextTwice == Enter \/ ProcessExample \/ Return \/ CallAgain

SpecTwice == InitTwice /\ [][NextTwice]_vars

----------------------------------------------------------------------------
(* Properties.                                                             *)

ExampleIds == {examples[i].id : i \in 1..Len(examples)}
Recorded == DOMAIN all_nbest_json
ContextOf(id) == context_list[examples[example_id_to_index(id) + 1].relevant + 1]
TextOf(id, candidate) == Slice(ContextOf(id), candidate.offsets[1], candidate.offsets[2])

ShapeDiffers ==
    Len(all_start_logits) # Len(features) \/ Len(all_end_logits) # Len(features)

NothingProduced ==
    /\ example_index = 0
    /\ DOMAIN all_predictions = {}
    /\ DOMAIN all_nbest_json = {}
    /\ DOMAIN scores_diff_json = {}

(* C1: whenever the number of start-logit rows or the number of end-logit  *)
(* rows differs from the number of features, the call fails with the       *)
(* shape error before any example is processed and produces no entry.      *)
C1_ShapeMismatchFailsFast ==
    ShapeDiffers =>
        /\ pc \in {"start", "raised"}
        /\ pc = "raised" => error = "ValueError"
        /\ NothingProduced

(* The null prediction was appended again at line 180.                     *)
NullReinserted(id) == Len(locals[id].predictions) > Len(locals[id].top)
(* The fake prediction was inserted at line 198.                           *)
FakeInserted(id) == Len(all_nbest_json[id]) > Len(locals[id].predictions)

(* C2: every recorded n-best list has at least 1 and at most n_best_size   *)
(* entries, or n_best_size + 1 entries only when the null prediction was   *)
(* reinserted after truncation.                                            *)
C2_NBestLengthOriginal ==
    \A id \in Recorded :
        /\ Len(all_nbest_json[id]) >= 1
        /\ \/ Len(all_nbest_json[id]) <= n_best_size
           \/ Len(all_nbest_json[id]) <= n_best_size + 1 /\ NullReinserted(id)

(* C2, amended: every recorded n-best list has at least 1 and at most      *)
(* n_best_size + 1 entries, and has more than n_best_size only when the    *)
(* null prediction was reinserted or the fake prediction was inserted.     *)
C2_NBestLength ==
    \A id \in Recorded :
        /\ Len(all_nbest_json[id]) >= 1
        /\ Len(all_nbest_json[id]) <= n_best_size + 1
        /\ Len(all_nbest_json[id]) > n_best_size => NullReinserted(id) \/ FakeInserted(id)

(* A list of n_best_size + 1 entries whose extra entry is the fake         *)
(* prediction, and one whose extra entry is the reinserted null one.       *)
C2_Witness ==
    /\ \E id \in Recorded :
          /\ Len(all_nbest_json[id]) = n_best_size + 1
          /\ FakeInserted(id)
          /\ ~NullReinserted(id)
          /\ Len(locals[id].prelim_predictions) > n_best_size
    /\ \E id \in Recorded :
          /\ Len(all_nbest_json[id]) = n_best_size + 1
          /\ NullReinserted(id)

IsScenario == context_list = <<ContextHello>>

(* The pool holds no candidate of a higher score than c.                   *)
HighestOf(id, c) ==
    \A k \in 1..Len(locals[id].prelim_predictions) :
        c.score >= locals[id].prelim_predictions[k].score

(* C3: with null-answer mode off, the answer of every example is the text  *)
(* of the first candidate after the descending sort, the one of the        *)
(* highest score among those that survive filtering and truncation.        *)
C3_TopRankedAnswerOriginal ==
    ~version_2_with_negative =>
        \A id \in DOMAIN all_predictions :
            Len(locals[id].top) >= 1 =>
                /\ HighestOf(id, locals[id].top[1])
                /\ all_predictions[id] = TextOf(id, locals[id].top[1])

(* C3, amended: with null-answer mode off, the answer is the text of the   *)
(* first candidate after the descending sort, which has the highest score  *)
(* of the pool, unless no candidate was kept or the only kept candidate    *)
(* has an empty text: the answer is then the placeholder "empty".  In the  *)
(* scenario with max_answer_length = 5 the answer is "hello world".        *)
C3_TopRankedAnswer ==
    ~version_2_with_negative =>
        \A id \in DOMAIN all_predictions :
            LET top == locals[id].top
            IN  /\ Len(top) >= 1 => HighestOf(id, top[1])
                /\ all_predictions[id] =
                      IF Len(top) = 0 \/ (Len(top) = 1 /\ TextOf(id, top[1]) = EmptyText)
                      THEN PlaceholderText
                      ELSE TextOf(id, top[1])
                /\ IsScenario /\ max_answer_length = 5 =>
                      all_predictions[id] = ContextHello

(* The scenario has run with max_answer_length = 5: three candidates were  *)
(* ranked and the answer is the span of tokens 1-2.                        *)
C3_Witness ==
    /\ ~version_2_with_negative
    /\ IsScenario
    /\ max_answer_length = 5
    /\ "q1" \in DOMAIN all_predictions
    /\ Len(locals["q1"].top) = 3
    /\ locals["q1"].top[1].start_index = 1
    /\ locals["q1"].top[1].end_index = 2

FeaturesOf(id) == {f \in 1..Len(features) : features[f].example_id = id}

(* The least start_logits[0] + end_logits[0] over the features of id.      *)
LeastNullScore(id) ==
    LET scores == {all_start_logits[f][1] + all_end_logits[f][1] : f \in FeaturesOf(id)}
    IN  CHOOSE m \in scores : \A x \in scores : m <= x

FirstNonEmpty(nbest) ==
    CHOOSE k \in 1..Len(nbest) :
        nbest[k].text # EmptyText /\ \A j \in 1..(k - 1) : nbest[j].text = EmptyText

(* C4: with null-answer mode on, for every example the best non-null       *)
(* candidate is the first n-best entry of non-empty text, score_diff is    *)
(* the null score of that same example minus its start and end logits, and *)
(* the answer is "" exactly when score_diff exceeds the threshold and the  *)
(* text of the best non-null candidate otherwise.                          *)
C4_NullModeAnswer ==
    version_2_with_negative =>
        \A id \in DOMAIN all_predictions :
            /\ \E k \in 1..Len(all_nbest_json[id]) : all_nbest_json[id][k].text # EmptyText
            /\ FeaturesOf(id) # {}
            /\ LET best == all_nbest_json[id][FirstNonEmpty(all_nbest_json[id])]
               IN  /\ scores_diff_json[id] =
                         LeastNullScore(id) - best.start_logit - best.end_logit
                   /\ all_predictions[id] =
                         IF scores_diff_json[id] > null_score_diff_threshold
                         THEN EmptyText ELSE best.text

(* C5: with null-answer mode off no score-diff entry is ever created; with *)
(* it on and matching logit counts, the call does not abort and, once it   *)
(* has returned, every example id has a score-diff entry.                  *)
C5_ScoreDiffEntries ==
    /\ ~version_2_with_negative => DOMAIN scores_diff_json = {}
    /\ version_2_with_negative /\ ~ShapeDiffers =>
          /\ pc # "raised"
          /\ pc = "returned" => DOMAIN scores_diff_json = ExampleIds

(* C6: with null-answer mode on, the n-best list of every example (that    *)
(* has a feature) holds the null candidate: an entry of empty text whose   *)
(* logits add up to the least null score of the example.                   *)
C6_NullAlwaysPresent ==
    version_2_with_negative =>
        \A id \in Recorded :
            FeaturesOf(id) # {} =>
                \E k \in 1..Len(all_nbest_json[id]) :
                    /\ all_nbest_json[id][k].text = EmptyText
                    /\ all_nbest_json[id][k].start_logit + all_nbest_json[id][k].end_logit
                          = LeastNullScore(id)

(* C7: the n-best list of every example holds a candidate whose text is    *)
(* not empty.                                                              *)
C7_SomeNonEmptyText ==
    \A id \in Recorded :
        \E k \in 1..Len(all_nbest_json[id]) : all_nbest_json[id][k].text # EmptyText

(* No pair of any feature of the example passed the filters.               *)
NoValidCandidate(id) ==
    \A k \in 1..Len(locals[id].prelim_predictions) :
        locals[id].prelim_predictions[k].origin = "null"

CertainFake(id) ==
    \E k \in 1..Len(all_nbest_json[id]) :
        /\ all_nbest_json[id][k].text = PlaceholderText
        /\ all_nbest_json[id][k].probability[1] = all_nbest_json[id][k].probability[2]

(* C8: an example with no valid candidate after filtering, in either       *)
(* null-answer mode and also without features, has the answer "empty" and  *)
(* the placeholder has probability 1.                                      *)
C8_EmptyPlaceholderOriginal ==
    \A id \in DOMAIN all_predictions :
        NoValidCandidate(id) =>
            all_predictions[id] = PlaceholderText /\ CertainFake(id)

(* C8, amended: with null-answer mode off, an example with no valid        *)
(* candidate after filtering (also one without features) has the answer    *)
(* "empty" and the placeholder has probability 1.                          *)
C8_EmptyPlaceholder ==
    ~version_2_with_negative =>
        \A id \in DOMAIN all_predictions :
            NoValidCandidate(id) =>
                all_predictions[id] = PlaceholderText /\ CertainFake(id)

(* Null-answer mode is off and two examples were answered "empty": one     *)
(* whose feature yields no valid pair and one that has no feature.         *)
C8_Witness ==
    /\ ~version_2_with_negative
    /\ \E id \in DOMAIN all_predictions :
          /\ FeaturesOf(id) # {}
          /\ NoValidCandidate(id)
          /\ all_predictions[id] = PlaceholderText
    /\ \E id \in DOMAIN all_predictions :
          /\ FeaturesOf(id) = {}
          /\ all_predictions[id] = PlaceholderText

KeptSpans(id) ==
    {<<c.start_index, c.end_index>> :
        c \in {locals[id].predictions[k] : k \in 1..Len(locals[id].predictions)}}

(* C9: in the scenario with null-answer mode off and max_answer_length =   *)
(* 1, the span (1, 2) is excluded, the best remaining candidate is the     *)
(* span (1, 1) and the answer is "hello".                                  *)
C9_ScenarioLengthOneOriginal ==
    IsScenario /\ ~version_2_with_negative /\ max_answer_length = 1 =>
        \A id \in DOMAIN all_predictions :
            /\ <<1, 2>> \notin KeptSpans(id)
            /\ locals[id].top[1].start_index = 1
            /\ locals[id].top[1].end_index = 1
            /\ all_predictions[id] = <<"h", "e", "l", "l", "o">>

(* C9, amended: in that scenario the span (1, 2) is excluded, the best     *)
(* remaining candidate is the span (2, 2), of score 1 + 6 = 7 against      *)
(* 5 + 1 = 6 for the span (1, 1), and the answer is "world".               *)
C9_ScenarioLengthOne ==
    IsScenario /\ ~version_2_with_negative /\ max_answer_length = 1 =>
        \A id \in DOMAIN all_predictions :
            /\ KeptSpans(id) = {<<1, 1>>, <<2, 2>>}
            /\ locals[id].top[1].start_index = 2
            /\ locals[id].top[1].end_index = 2
            /\ locals[id].top[1].score = 7
            /\ locals[id].top[2].score = 6
            /\ all_predictions[id] = <<"w", "o", "r", "l", "d">>

C9_Witness ==
    /\ IsScenario
    /\ ~version_2_with_negative
    /\ max_answer_length = 1
    /\ pc = "returned"
    /\ DOMAIN result[1] = {"q1"}

InContext(id, c) ==
    /\ 0 <= c.offsets[1]
    /\ c.offsets[1] <= c.offsets[2]
    /\ c.offsets[2] <= Len(ContextOf(id))

(* C10: the character offsets of every kept candidate of every example     *)
(* satisfy 0 <= start <= end <= len(context), whatever the non-null        *)
(* entries of offset_mapping are.                                          *)
C10_OffsetsInContextOriginal ==
    \A id \in Recorded :
        \A k \in 1..Len(locals[id].predictions) : InContext(id, locals[id].predictions[k])

(* Every entry of two values lies within the context and the entries do    *)
(* not go backwards.                                                       *)
WellFormedOffsets(offset_mapping, context) ==
    LET spans == {i \in 1..Len(offset_mapping) : Len(offset_mapping[i].span) >= 2}
    IN  /\ \A i \in spans :
              /\ 0 <= offset_mapping[i].span[1]
              /\ offset_mapping[i].span[1] <= offset_mapping[i].span[2]
              /\ offset_mapping[i].span[2] <= Len(context)
        /\ \A i, j \in spans :
              i <= j => /\ offset_mapping[i].span[1] <= offset_mapping[j].span[1]
                        /\ offset_mapping[i].span[2] <= offset_mapping[j].span[2]

(* C10, amended: the offsets of a kept candidate satisfy 0 <= start <= end *)
(* <= len(context) when the offset_mapping of its feature is well formed:  *)
(* each entry (a, b) has 0 <= a <= b <= len(context) and neither a nor b   *)
(* decreases along the tokens.                                             *)
C10_OffsetsInContext ==
    \A id \in Recorded :
        \A k \in 1..Len(locals[id].predictions) :
            LET c == locals[id].predictions[k]
            IN  WellFormedOffsets(features[c.feature_index + 1].offset_mapping, ContextOf(id))
                    => InContext(id, c)

(* A kept candidate that spans two distinct tokens of a well-formed        *)
(* feature.                                                                *)
C10_Witness ==
    \E id \in Recorded :
        \E k \in 1..Len(locals[id].predictions) :
            LET c == locals[id].predictions[k]
            IN  /\ c.origin = "span"
                /\ c.start_index < c.end_index
                /\ WellFormedOffsets(features[c.feature_index + 1].offset_mapping,
                                     ContextOf(id))
                /\ c.offsets[1] < c.offsets[2]

IsSubstring(text, context) ==
    \E a \in 0..Len(context) : \E b \in a..Len(context) : Slice(context, a, b) = text

OwnNullScore(id) ==
    IF locals[id].min_null_prediction = <<>> THEN <<>>
    ELSE <<locals[id].min_null_prediction[1].score>>

(* C13: what is recorded for an example depends on that example's own      *)
(* features, logits and context only, also for an example without          *)
(* features: its score difference is computed from the null score of its   *)
(* own features and from its own n-best list.                              *)
C13_ExamplesIndependent ==
    \A id \in DOMAIN scores_diff_json :
        /\ OwnNullScore(id) # <<>>
        /\ scores_diff_json[id] =
              ScoreDiff(OwnNullScore(id)[1], BestNonNull(all_nbest_json[id]))

arguments == <<examples, features, context_list, predictions>>

(* C14: no step of a call, of one that returns or of one that raises,      *)
(* changes examples, features, context_list or the two logit arrays.       *)
C14_InputsUnchanged == [][arguments' = arguments]_vars

(* Two examples were processed, one of them from a feature, and the call   *)
(* returned.                                                               *)
C14_Witness ==
    /\ pc = "returned"
    /\ Len(examples) = 2
    /\ Len(features) >= 1
    /\ \E id \in Recorded : Len(locals[id].prelim_predictions) >= 1

FinalScores(id) ==
    (IF FakeInserted(id) THEN <<0>> ELSE <<>>)
        \o [k \in 1..Len(locals[id].predictions) |-> locals[id].predictions[k].score]

(* C16: in every n-best list each probability is non-negative, the         *)
(* probabilities add up to 1, and entry k has exp(score k - greatest       *)
(* score) over the sum of these, the scores being those of the final list  *)
(* (after truncation, null reinsertion and placeholder insertion).         *)
C16_ProbabilitiesAreSoftmax ==
    \A id \in Recorded :
        LET nbest == all_nbest_json[id]
            scores == FinalScores(id)
            sum == SumSeq([k \in 1..Len(nbest) |-> nbest[k].probability[1]])
        IN  /\ Len(scores) = Len(nbest)
            /\ sum > 0
            /\ \A k \in 1..Len(nbest) :
                  /\ nbest[k].probability[1] >= 0
                  /\ nbest[k].probability[2] = sum
                  /\ nbest[k].probability[1] = Exp(MaxSeq(scores) - scores[k])

(* Two lists of unequal probabilities: one behind the fake prediction, one *)
(* that ends with the reinserted null prediction.                          *)
C16_Witness ==
    /\ \E id \in Recorded :
          /\ FakeInserted(id)
          /\ Len(all_nbest_json[id]) = 2
          /\ all_nbest_json[id][1].probability[1] < all_nbest_json[id][2].probability[1]
    /\ \E id \in Recorded :
          /\ NullReinserted(id)
          /\ all_nbest_json[id][1].probability[1]
                > all_nbest_json[id][Len(all_nbest_json[id])].probability[1]

(* start_logits[0] + end_logits[0] of feature f (f counted from 1).        *)
NullScoreOf(f) == all_start_logits[f][1] + all_end_logits[f][1]

(* The first feature of id whose null score is the least one.              *)
EarliestLeast(id) ==
    CHOOSE f \in FeaturesOf(id) :
        /\ NullScoreOf(f) = LeastNullScore(id)
        /\ \A g \in FeaturesOf(id) : NullScoreOf(g) = LeastNullScore(id) => f <= g

(* C17: for every example with a feature, in either mode, the tracked null *)
(* candidate has offsets (0, 0), its score is the least                    *)
(* start_logits[0] + end_logits[0] over the features of the example, and   *)
(* its start_logit and end_logit are those of the earliest feature of that *)
(* score, so that score = start_logit + end_logit.                         *)
C17_TrackedNull ==
    \A id \in Recorded :
        IF FeaturesOf(id) = {} THEN locals[id].min_null_prediction = <<>>
        ELSE /\ locals[id].min_null_prediction # <<>>
             /\ LET null == locals[id].min_null_prediction[1]
                    f == EarliestLeast(id)
                IN  /\ null.offsets = <<0, 0>>
                    /\ null.score = LeastNullScore(id)
                    /\ null.feature_index = f - 1
                    /\ null.start_logit = all_start_logits[f][1]
                    /\ null.end_logit = all_end_logits[f][1]
                    /\ null.score = null.start_logit + null.end_logit

(* An example with two features of the same null score and different       *)
(* logits at position 0: the logits of the first one are tracked.          *)
C17_Witness ==
    \E id \in Recorded :
        \E f, g \in FeaturesOf(id) :
            /\ f < g
            /\ NullScoreOf(f) = NullScoreOf(g)
            /\ all_start_logits[f][1] # all_start_logits[g][1]
            /\ locals[id].min_null_prediction[1].start_logit = all_start_logits[f][1]

(* The rows of logits that were shortlisted: those of the features of the  *)
(* processed examples.                                                     *)
ShortlistedRows ==
    UNION {UNION {{all_start_logits[locals[id].feature_indices[k] + 1],
                   all_end_logits[locals[id].feature_indices[k] + 1]} :
                     k \in 1..Len(locals[id].feature_indices)} : id \in Recorded}

(* The shortlist holds min(n_best_size, token count) distinct positions,   *)
(* no position left out has a greater logit than one listed, and the       *)
(* logits do not increase along the list.                                  *)
HighestFirst(logits) ==
    LET s == Shortlist(logits)
        listed == {s[k] : k \in 1..Len(s)}
    IN  /\ Len(s) = Min(n_best_size, Len(logits))
        /\ Cardinality(listed) = Len(s)
        /\ listed \subseteq 0..(Len(logits) - 1)
        /\ \A i \in (0..(Len(logits) - 1)) \ listed :
              \A j \in listed : logits[i + 1] <= logits[j + 1]
        /\ \A k \in 1..(Len(s) - 1) : logits[s[k] + 1] >= logits[s[k + 1] + 1]

(* C18: each shortlist holds the min(n_best_size, token count) positions   *)
(* of the greatest logits, greatest first, and positions of equal logits   *)
(* are listed in ascending index.                                          *)
C18_ShortlistOrderOriginal ==
    \A logits \in ShortlistedRows :
        /\ HighestFirst(logits)
        /\ LET s == Shortlist(logits)
           IN  \A k \in 1..(Len(s) - 1) :
                   logits[s[k] + 1] = logits[s[k + 1] + 1] => s[k] < s[k + 1]

(* C18, amended: each shortlist holds the min(n_best_size, token count)    *)
(* positions of the greatest logits, greatest first; np.argsort decides    *)
(* the order of equal logits, and where it sorts stably the reversed slice *)
(* lists them in descending index.                                         *)
C18_ShortlistOrder ==
    \A logits \in ShortlistedRows :
        /\ HighestFirst(logits)
        /\ argsort_stable =>
              LET s == Shortlist(logits)
              IN  \A k \in 1..(Len(s) - 1) :
                      logits[s[k] + 1] = logits[s[k + 1] + 1] => s[k] > s[k + 1]

(* With a stable argsort, a processed feature whose two start logits are   *)
(* equal has the shortlist 1, 0; and one of the two positions is left out  *)
(* of a shortlist of one.                                                  *)
C18_Witness ==
    /\ argsort_stable
    /\ Recorded # {}
    /\ Len(features) = 1
    /\ all_start_logits[1] = <<1, 1>>
    /\ all_end_logits[1] = <<0, 1>>
    /\ n_best_size = 2
    /\ Shortlist(all_start_logits[1]) = <<1, 0>>
    /\ Shortlist(all_end_logits[1]) = <<1, 0>>

(* The candidates built from a pair of token indices for example id.       *)
SpanCandidates(id) ==
    {c \in {locals[id].prelim_predictions[k] :
                k \in 1..Len(locals[id].prelim_predictions)} : c.origin = "span"}

(* Entry i of offset_mapping exists and holds two values.                  *)
InScope(offset_mapping, i) ==
    /\ i < Len(offset_mapping)
    /\ ~offset_mapping[i + 1].isNone
    /\ Len(offset_mapping[i + 1].span) >= 2

(* C19: every candidate built from a pair of indices comes from one        *)
(* feature of the example, both indices have an offset_mapping entry that  *)
(* is there and is not None, its offsets are (offset_mapping[start][0],    *)
(* offset_mapping[end][1]), its score is start_logits[start] +             *)
(* end_logits[end]; the other pairs are skipped and raise no error.        *)
C19_OnlyInScopeSpans ==
    /\ \A id \in Recorded :
          \A c \in SpanCandidates(id) :
              LET offset_mapping == features[c.feature_index + 1].offset_mapping
                  start_logits == all_start_logits[c.feature_index + 1]
                  end_logits == all_end_logits[c.feature_index + 1]
              IN  /\ \E k \in 1..Len(locals[id].feature_indices) :
                        locals[id].feature_indices[k] = c.feature_index
                  /\ InScope(offset_mapping, c.start_index)
                  /\ InScope(offset_mapping, c.end_index)
                  /\ c.offsets = <<offset_mapping[c.start_index + 1].span[1],
                                   offset_mapping[c.end_index + 1].span[2]>>
                  /\ c.start_logit = start_logits[c.start_index + 1]
                  /\ c.end_logit = end_logits[c.end_index + 1]
                  /\ c.score = c.start_logit + c.end_logit
    /\ ~version_2_with_negative /\ ~ShapeDiffers => pc # "raised"

(* The call returned after it processed a feature with a shortlisted      *)
(* start index and a shortlisted end index whose entry is None or is not   *)
(* there, while another pair of that feature became a candidate.           *)
C19_Witness ==
    \E id \in Recorded :
        \E c \in SpanCandidates(id) :
            LET offset_mapping == features[c.feature_index + 1].offset_mapping
                start_indexes == Shortlist(all_start_logits[c.feature_index + 1])
                end_indexes == Shortlist(all_end_logits[c.feature_index + 1])
            IN  /\ pc = "returned"
                /\ \E k \in 1..Len(start_indexes) :
                      ~InScope(offset_mapping, start_indexes[k])
                /\ \E k \in 1..Len(end_indexes) :
                      ~InScope(offset_mapping, end_indexes[k])

(* The pairs (feature, start, end) of the two shortlists of the features   *)
(* of example id that neither the offset test nor the max-context test     *)
(* removes.                                                                *)
EligiblePairs(id) ==
    UNION {LET f == locals[id].feature_indices[k]
               start_indexes == Shortlist(all_start_logits[f + 1])
               end_indexes == Shortlist(all_end_logits[f + 1])
           IN  {<<f, start_indexes[i], end_indexes[j]>> :
                    i \in 1..Len(start_indexes), j \in 1..Len(end_indexes)}
         : k \in 1..Len(locals[id].feature_indices)}

Eligible(p) ==
    /\ InScope(features[p[1] + 1].offset_mapping, p[2])
    /\ InScope(features[p[1] + 1].offset_mapping, p[3])
    /\ ~NotMaxContext(features[p[1] + 1].token_is_max_context, p[2])

BuiltFrom(id) == {<<c.feature_index, c.start_index, c.end_index>> : c \in SpanCandidates(id)}

(* C20: every candidate built from token indices (start, end) has          *)
(* start <= end and end - start + 1 <= max_answer_length; a shortlisted    *)
(* pair of exactly max_answer_length tokens (or fewer) that passes the     *)
(* other tests is a candidate, one of max_answer_length + 1 tokens never.  *)
C20_SpanLength ==
    \A id \in Recorded :
        /\ \A c \in SpanCandidates(id) :
              /\ c.start_index <= c.end_index
              /\ c.end_index - c.start_index + 1 <= max_answer_length
        /\ \A p \in EligiblePairs(id) :
              Eligible(p) =>
                  /\ p[2] <= p[3] /\ p[3] - p[2] + 1 <= max_answer_length
                        => p \in BuiltFrom(id)
                  /\ p[3] - p[2] + 1 = max_answer_length + 1 => p \notin BuiltFrom(id)

(* In one processed example a shortlisted pair of exactly                  *)
(* max_answer_length tokens is a candidate and a shortlisted pair of one   *)
(* token more is not.                                                      *)
C20_Witness ==
    \E id \in Recorded :
        /\ \E p \in BuiltFrom(id) : p[3] - p[2] + 1 = max_answer_length
        /\ \E p \in EligiblePairs(id) :
              /\ Eligible(p)
              /\ p[3] - p[2] + 1 = max_answer_length + 1
              /\ p \notin BuiltFrom(id)

(* The shortlisted pairs of example id, of a feature that supplies         *)
(* token_is_max_context, that the offset test and the length test keep.    *)
MaxContextPairs(id) ==
    {p \in EligiblePairs(id) :
        /\ ~features[p[1] + 1].token_is_max_context.isNone
        /\ InScope(features[p[1] + 1].offset_mapping, p[2])
        /\ InScope(features[p[1] + 1].offset_mapping, p[3])
        /\ ~BadLength(p[2], p[3])}

HasKey(p, i) == ToStr(i) \in DOMAIN features[p[1] + 1].token_is_max_context.map
Flag(p, i) == features[p[1] + 1].token_is_max_context.map[ToStr(i)]

(* C21: when a feature supplies token_is_max_context, a pair is discarded  *)
(* exactly when the entry of its start index is present and false; a start *)
(* index whose key is missing is kept.                                     *)
C21_MaxContextOriginal ==
    \A id \in Recorded :
        \A p \in MaxContextPairs(id) :
            p \notin BuiltFrom(id) <=> (HasKey(p, p[2]) /\ ~Flag(p, p[2]))

(* C21, amended: when a feature supplies token_is_max_context, a pair is   *)
(* discarded exactly when the entry of its start index is false or its key *)
(* is missing; the entry of the end index has no effect.                   *)
C21_MaxContext ==
    \A id \in Recorded :
        \A p \in MaxContextPairs(id) :
            p \in BuiltFrom(id) <=> (HasKey(p, p[2]) /\ Flag(p, p[2]))

(* A processed feature with token_is_max_context: a pair whose start index *)
(* has no key was discarded and a pair whose start index has a true entry  *)
(* was kept.                                                               *)
C21_Witness ==
    \E id \in Recorded :
        /\ \E p \in MaxContextPairs(id) : ~HasKey(p, p[2]) /\ p \notin BuiltFrom(id)
        /\ \E p \in MaxContextPairs(id) : HasKey(p, p[2]) /\ p \in BuiltFrom(id)

Pool(id) == {locals[id].prelim_predictions[k] : k \in 1..Len(locals[id].prelim_predictions)}
KeptByTruncation(id) == {locals[id].top[k] : k \in 1..Len(locals[id].top)}

(* C22: truncation keeps n_best_size candidates of the pool of the         *)
(* example, or all of them if there are fewer; every candidate it drops    *)
(* has a score less than or equal to that of every candidate it keeps, in  *)
(* one ranking of the candidates of all the features of the example.       *)
C22_TruncationKeepsBest ==
    \A id \in Recorded :
        /\ Cardinality(Pool(id)) = Len(locals[id].prelim_predictions)
        /\ Len(locals[id].top) = Min(n_best_size, Len(locals[id].prelim_predictions))
        /\ Cardinality(KeptByTruncation(id)) = Len(locals[id].top)
        /\ KeptByTruncation(id) \subseteq Pool(id)
        /\ \A dropped \in Pool(id) \ KeptByTruncation(id) :
              \A c \in KeptByTruncation(id) : dropped.score <= c.score

(* Truncation kept candidates of two features of one example and dropped   *)
(* another candidate of its pool.                                          *)
C22_Witness ==
    \E id \in Recorded :
        /\ \E c, d \in KeptByTruncation(id) :
              c.origin = "span" /\ d.origin = "span" /\ c.feature_index # d.feature_index
        /\ Pool(id) # KeptByTruncation(id)

(* start_logit + end_logit of entry k of the n-best list of id.            *)
RawScore(id, k) == all_nbest_json[id][k].start_logit + all_nbest_json[id][k].end_logit

(* The raw scores do not increase from entry `from` of the list on.        *)
RankedFrom(id, from) ==
    \A k \in from..(Len(all_nbest_json[id]) - 1) : RawScore(id, k) >= RawScore(id, k + 1)

(* C23: the raw scores of every recorded n-best list do not increase from  *)
(* front to back, also when the null prediction was reinserted and when    *)
(* the fake prediction was inserted.                                       *)
C23_RankOrderOriginal ==
    \A id \in Recorded : RankedFrom(id, 1)

(* C23, amended: the raw scores of every recorded n-best list do not       *)
(* increase from front to back, the reinserted null prediction included,   *)
(* except that the fake prediction, of score 0, stands in front of the     *)
(* list whatever the score of the entry behind it.                         *)
C23_RankOrder ==
    \A id \in Recorded :
        IF FakeInserted(id)
        THEN /\ RawScore(id, 1) = 0
             /\ all_nbest_json[id][1].text = PlaceholderText
             /\ RankedFrom(id, 2)
        ELSE RankedFrom(id, 1)

(* A list that ends with the reinserted null prediction, of a lower score  *)
(* than the entry in front of it, and a list whose fake prediction stands  *)
(* in front of an entry of a higher score.                                 *)
C23_Witness ==
    /\ \E id \in Recorded :
          /\ NullReinserted(id)
          /\ ~FakeInserted(id)
          /\ RawScore(id, 1) > RawScore(id, Len(all_nbest_json[id]))
    /\ \E id \in Recorded :
          /\ FakeInserted(id)
          /\ Len(all_nbest_json[id]) = 2
          /\ RawScore(id, 1) < RawScore(id, 2)

(* The kept list of id, after text slicing, is empty or is one candidate   *)
(* of empty text.                                                          *)
Degenerate(id) ==
    \/ Len(locals[id].predictions) = 0
    \/ /\ Len(locals[id].predictions) = 1
       /\ TextOf(id, locals[id].predictions[1]) = EmptyText

(* Entry k of the n-best list of id is kept candidate j with its text.     *)
SameCandidate(id, k, j) ==
    /\ all_nbest_json[id][k].text = TextOf(id, locals[id].predictions[j])
    /\ all_nbest_json[id][k].start_logit = locals[id].predictions[j].start_logit
    /\ all_nbest_json[id][k].end_logit = locals[id].predictions[j].end_logit

NullDueBack(id) ==
    /\ version_2_with_negative
    /\ locals[id].min_null_prediction # <<>>
    /\ \A k \in 1..Len(locals[id].top) : locals[id].top[k].offsets # <<0, 0>>

(* C25: the steps of an example run in the order sort, truncate, reinsert  *)
(* the null prediction, slice the text, insert the fake prediction,        *)
(* softmax: the truncated list has at most n_best_size entries, the null   *)
(* prediction is appended to it afterwards and the fake prediction is put  *)
(* in front after that, neither being cut, and each has a probability, of  *)
(* a softmax taken over the list that holds them.                          *)
C25_StepOrder ==
    \A id \in Recorded :
        LET top == locals[id].top
            kept == locals[id].predictions
            nbest == all_nbest_json[id]
            scores == FinalScores(id)
            total == SumSeq([k \in 1..Len(scores) |-> Exp(MaxSeq(scores) - scores[k])])
        IN  /\ top = SubSeq(SortedByScore(locals[id].prelim_predictions), 1, Len(top))
            /\ Len(top) <= n_best_size
            /\ kept = IF NullDueBack(id) THEN top \o locals[id].min_null_prediction ELSE top
            /\ Len(nbest) = Len(kept) + (IF Degenerate(id) THEN 1 ELSE 0)
            /\ NullDueBack(id) =>
                  /\ nbest[Len(nbest)].text = EmptyText
                  /\ nbest[Len(nbest)].probability =
                        <<Exp(MaxSeq(scores) - locals[id].min_null_prediction[1].score), total>>
            /\ Degenerate(id) =>
                  /\ nbest[1].text = PlaceholderText
                  /\ nbest[1].probability = <<Exp(MaxSeq(scores)), total>>

(* A list of n_best_size + 1 entries that ends with the reinserted null    *)
(* prediction, and a list of n_best_size + 1 entries that starts with the  *)
(* fake prediction.                                                        *)
C25_Witness ==
    /\ \E id \in Recorded :
          /\ NullDueBack(id)
          /\ Len(locals[id].top) = n_best_size
          /\ Len(all_nbest_json[id]) = n_best_size + 1
    /\ \E id \in Recorded :
          /\ Degenerate(id)
          /\ Len(locals[id].predictions) = n_best_size
          /\ Len(all_nbest_json[id]) = n_best_size + 1

(* The feature indices visited for example id.                             *)
Visited(id) == {locals[id].feature_indices[k] : k \in 1..Len(locals[id].feature_indices)}

(* C26: the features visited for an example are those whose example_id is  *)
(* its id, in ascending index; every candidate of its pool and its null    *)
(* prediction come from one of them; once the call has returned every      *)
(* feature was visited, for exactly one example.                           *)
C26_FeaturesOfOwnExample ==
    /\ \A id \in Recorded :
          /\ Visited(id) = {f - 1 : f \in FeaturesOf(id)}
          /\ \A k \in 1..(Len(locals[id].feature_indices) - 1) :
                locals[id].feature_indices[k] < locals[id].feature_indices[k + 1]
          /\ \A c \in Pool(id) : features[c.feature_index + 1].example_id = id
          /\ \A k \in 1..Len(locals[id].min_null_prediction) :
                features[locals[id].min_null_prediction[k].feature_index + 1].example_id = id
    /\ pc = "returned" =>
          \A f \in 0..(Len(features) - 1) :
              Cardinality({id \in Recorded : f \in Visited(id)}) = 1

(* The call returned for two examples whose features alternate: the first  *)
(* feature belongs to the second example, the second to the first, and     *)
(* each gave its example a candidate.                                      *)
C26_Witness ==
    /\ pc = "returned"
    /\ Len(examples) = 2
    /\ Len(features) = 2
    /\ features[1].example_id = examples[2].id
    /\ features[2].example_id = examples[1].id
    /\ \A id \in Recorded : SpanCandidates(id) # {}


----------------------------------------------------------------------------
(* main: the examples and the features handed to post_processing_function. *)
(* The evaluation path (lines 1141-1158) and the prediction path (lines    *)
(* 1163-1179) are the same code over max_eval_samples and                   *)
(* max_predict_samples; max_eval_samples stands for either.                *)

MaxWindows == 2

(* The offsets of window w of n over a context: a special token and one    *)
(* context token that covers the w-th part of the context.                 *)
WindowOffsets(context, w, n) ==
    <<None, Span(((w - 1) * Len(context)) \div n, (w * Len(context)) \div n)>>

(* prepare_validation_features: windows[i] features for example i, in the  *)
(* order of the examples, each with the id of its example.                 *)
RECURSIVE prepare_validation_features(_, _, _)
prepare_validation_features(exs, windows, i) ==
    IF i > Len(exs) THEN <<>>
    ELSE [w \in 1..windows[i] |->
             [example_id |-> exs[i].id,
              offset_mapping |->
                 WindowOffsets(context_list[exs[i].relevant + 1], w, windows[i]),
              token_is_max_context |-> NoMaxContext]]
         \o prepare_validation_features(exs, windows, i + 1)

(* dataset.select(range(n)) *)
select(dataset, n) == SubSeq(dataset, 1, n)

(* The logits the model gives for one feature: <<start_logits, end_logits>>. *)
ModelOutputs == { <<(<<0, 1>>), (<<0, 1>>)>>, <<(<<1, 0>>), (<<0, 0>>)>> }

Idle ==
    /\ error = "none"
    /\ example_index = 0
    /\ null_score = <<>>
    /\ locals = <<>>
    /\ all_predictions = <<>>
    /\ all_nbest_json = <<>>
    /\ scores_diff_json = <<>>
    /\ result = <<>>
    /\ previous = <<>>
    /\ start_or_end_logits = <<>>
    /\ step = 0
    /\ logits_concat = <<>>
    /\ batch_index = 0

(* main before line 1141: the raw validation set and the arguments.        *)
InitMain ==
    /\ pc = "main"
    /\ examples = ExamplePool
    /\ context_list = <<ContextA, ContextB>>
    /\ features = <<>>
    /\ predictions = <<(<<>>), (<<>>)>>
    /\ max_eval_samples \in {<<>>} \cup {<<n>> : n \in 1..Len(ExamplePool)}
    /\ version_2_with_negative \in BOOLEAN
    /\ n_best_size \in 1..MaxNBest
    /\ max_answer_length = DefaultMaxAnswerLength
    /\ null_score_diff_threshold = 0
    /\ argsort_stable = TRUE
    /\ Idle

(* Everything of the state that main's data preparation leaves alone.      *)
prepared == <<context_list, version_2_with_negative, n_best_size, max_answer_length,
              null_score_diff_threshold, argsort_stable, error, example_index,
              null_score, locals, all_predictions, all_nbest_json, scores_diff_json,
              result, previous, max_eval_samples, start_or_end_logits, step,
              logits_concat, batch_index>>

(* Lines 1142-1144: the first max_eval_samples examples.                   *)
SelectExamples ==
    /\ pc = "main"
    /\ examples' = IF max_eval_samples = <<>> THEN examples
                   ELSE select(examples, max_eval_samples[1])
    /\ pc' = "selected"
    /\ UNCHANGED <<features, predictions, prepared>>

(* Lines 1146-1155: every example gives one feature or more.               *)
PrepareFeatures ==
    /\ pc = "selected"
    /\ \E windows \in [1..Len(examples) -> 1..MaxWindows] :
          features' = prepare_validation_features(examples, windows, 1)
    /\ pc' = "tokenized"
    /\ UNCHANGED <<examples, predictions, prepared>>

(* Lines 1156-1158: the first max_eval_samples features.                   *)
SelectFeatures ==
    /\ pc = "tokenized"
    /\ features' = IF max_eval_samples = <<>> THEN features
                   ELSE select(features, max_eval_samples[1])
    /\ pc' = "cut"
    /\ UNCHANGED <<examples, predictions, prepared>>

(* Lines 1441-1480: one row of logits for each feature, then the call of   *)
(* post_processing_function with the examples and the features.            *)
Predict ==
    /\ pc = "cut"
    /\ \E outputs \in [1..Len(features) -> ModelOutputs] :
          predictions' = <<[f \in 1..Len(features) |-> outputs[f][1]],
                           [f \in 1..Len(features) |-> outputs[f][2]]>>
    /\ pc' = "start"
    /\ UNCHANGED <<examples, features, prepared>>

NextMain ==
    \/ SelectExamples
    \/ PrepareFeatures
    \/ SelectFeatures
    \/ Predict
    \/ Enter
    \/ ProcessExample
    \/ Return

SpecMain == InitMain /\ [][NextMain]_vars

(* The examples and the features are the ones handed to                    *)
(* post_processing_function.                                               *)
HandedOver == pc \in {"start", "loop", "returned", "raised"}

(* C27: in main, every example handed to post_processing_function has at   *)
(* least one feature in the feature dataset handed with it, for every      *)
(* setting of max_eval_samples / max_predict_samples.                      *)
C27_EveryExampleHasFeature ==
    HandedOver => \A id \in ExampleIds : FeaturesOf(id) # {}


----------------------------------------------------------------------------
(* C28: in null-answer mode the scan of lines 220-222 for the first        *)
(* n-best entry with a non-empty text stops inside the list, and the null  *)
(* score read at line 226 was assigned in the pass of the current example: *)
(* an IndexError can only come from the logit arrays (line 116), no pass   *)
(* reads an unassigned null_score, and every score difference recorded     *)
(* uses the null score of its own example.                                 *)
C28_ScanStopsInside ==
    version_2_with_negative =>
        /\ pc = "raised" /\ error = "IndexError" =>
              NoEndLogits(features_per_example(example_index))
        /\ error # "UnboundLocalError"
        /\ \A id \in DOMAIN scores_diff_json : OwnNullScore(id) # <<>>



----------------------------------------------------------------------------
(* The pairs <<feature, start, end>> of an example that pass the filters   *)
(* of lines 141-156, taken over every position of the logit rows: offsets  *)
(* present, start <= end, length <= max_answer_length, start at maximum    *)
(* context when the feature carries token_is_max_context.                  *)
TokenCount(f) == Len(all_start_logits[f])

ValidPairs(id) ==
    UNION {{p \in {<<f - 1, s, e>> : s \in 0..(Len(all_start_logits[f]) - 1),
                                     e \in 0..(Len(all_end_logits[f]) - 1)} :
               /\ InScope(features[f].offset_mapping, p[2])
               /\ InScope(features[f].offset_mapping, p[3])
               /\ p[2] <= p[3]
               /\ p[3] - p[2] + 1 <= max_answer_length
               /\ \/ features[f].token_is_max_context.isNone
                  \/ HasKey(p, p[2]) /\ Flag(p, p[2])}
          : f \in FeaturesOf(id)}

PairScore(p) == all_start_logits[p[1] + 1][p[2] + 1] + all_end_logits[p[1] + 1][p[3] + 1]

Exhaustive(id) == \A f \in FeaturesOf(id) : n_best_size >= TokenCount(f)

(* C29: with null-answer mode off and n_best_size at least the token count *)
(* of every feature of an example that has a pair passing the filters, the *)
(* first candidate of the sorted list of line 172 is one of these pairs    *)
(* and its score is the maximum of start_logits[s] + end_logits[e] over    *)
(* all of them; it is the first n-best entry unless the placeholder of     *)
(* line 198 was put in front of it.                                        *)
C29_TopAttainsMaximum ==
    ~version_2_with_negative =>
        \A id \in Recorded :
            Exhaustive(id) /\ ValidPairs(id) # {} =>
                /\ Len(locals[id].top) >= 1
                /\ LET first == locals[id].top[1]
                   IN  /\ <<first.feature_index, first.start_index, first.end_index>>
                             \in ValidPairs(id)
                       /\ first.score = first.start_logit + first.end_logit
                       /\ \A p \in ValidPairs(id) : PairScore(p) <= first.score
                       /\ ~FakeInserted(id) =>
                             /\ all_nbest_json[id][1].start_logit = first.start_logit
                             /\ all_nbest_json[id][1].end_logit = first.end_logit

(* An example with two features, n_best_size no less than their token      *)
(* counts, whose best valid pair lies in the second feature and beats      *)
(* every valid pair of the first; the call has returned.                   *)
C29_Witness ==
    /\ pc = "returned"
    /\ ~version_2_with_negative
    /\ \E id \in Recorded :
          /\ Exhaustive(id)
          /\ \E p, q \in ValidPairs(id) :
                /\ p[1] > q[1]
                /\ PairScore(p) = locals[id].top[1].score
                /\ \A r \in ValidPairs(id) : r[1] # p[1] => PairScore(r) < PairScore(p)

(* The second half of C29: with n_best_size below the token count an       *)
(* example has a pair passing the filters and yet no candidate with the    *)
(* score of the best of them, because the shortlists hold other positions. *)
C29_MissedWithSmallerNBest ==
    /\ ~version_2_with_negative
    /\ \E id \in Recorded :
          /\ ~Exhaustive(id)
          /\ \E p \in ValidPairs(id) :
                \A k \in 1..Len(locals[id].top) : locals[id].top[k].score < PairScore(p)



----------------------------------------------------------------------------
(* create_and_fill_np_array (lines 1252-1282): the batches of logit rows   *)
(* gathered in the evaluation loop are copied into one array of            *)
(* len(dataset) rows.  An array is a sequence of rows, a row a sequence of *)
(* numbers; dataset is the feature dataset.                                *)

MaxBatches == 3
MaxBatchRows == 3
MaxCols == 2

(* The fill value of np.full, line 1268. *)
PadValue == -100

(* The number of rows of the batches before batch b. *)
RECURSIVE RowsBefore(_, _)
RowsBefore(shapes, b) ==
    IF b <= 1 THEN 0 ELSE RowsBefore(shapes, b - 1) + shapes[b - 1][1]

(* Batches of the given <<rows, cols>>; every entry of a row is the        *)
(* position of the row in the concatenation of the batches.                *)
Batches(shapes) ==
    [b \in 1..Len(shapes) |->
        [k \in 1..shapes[b][1] |->
            [c \in 1..shapes[b][2] |-> RowsBefore(shapes, b) + k - 1]]]

(* Line 1468: max([x.shape[1] for x in all_start_logits]) *)
max_len == MaxSeq([b \in 1..Len(start_or_end_logits) |-> Len(start_or_end_logits[b][1])])

(* output_logit[:n]: the first n rows, and for a negative n all but the    *)
(* last -n rows.                                                           *)
RowsUpTo(output_logit, n) ==
    IF n >= 0 THEN SubSeq(output_logit, 1, Min(n, Len(output_logit)))
    ELSE SubSeq(output_logit, 1, IF Len(output_logit) + n > 0
                                 THEN Len(output_logit) + n ELSE 0)

(* The number of rows of array[from : to].                                 *)
RowCount(array, from, to) ==
    LET lo == Min(from, Len(array))
        hi == Min(to, Len(array))
    IN  IF hi > lo THEN hi - lo ELSE 0

(* numpy assigns source to a slice of as many rows, and repeats a source   *)
(* of one row over a slice of any number of rows, none included; any other *)
(* source raises ValueError (could not broadcast input array).             *)
Broadcasts(source, rows) == Len(source) = rows \/ Len(source) = 1

(* array[from : from + rows, :cols] = source *)
Assigned(array, from, rows, cols, source) ==
    [r \in 1..Len(array) |->
        IF r > from /\ r <= from + rows
        THEN [c \in 1..Len(array[r]) |->
                 IF c <= cols
                 THEN source[IF Len(source) = 1 THEN 1 ELSE r - from][c]
                 ELSE array[r][c]]
        ELSE array[r]]

(* Before the call of line 1471: a dataset of one feature or more and the  *)
(* batches of the evaluation loop.                                         *)
InitFill ==
    /\ pc = "fill_start"
    /\ examples = <<ExamplePool[1]>>
    /\ context_list = <<ContextA, ContextB>>
    /\ \E n \in 1..MaxFeatures :
          features = [i \in 1..n |-> [example_id |-> "q1",
                                      offset_mapping |-> <<None, Span(0, 2)>>,
                                      token_is_max_context |-> NoMaxContext]]
    /\ predictions = <<(<<>>), (<<>>)>>
    /\ version_2_with_negative = FALSE
    /\ n_best_size = DefaultNBestSize
    /\ max_answer_length = DefaultMaxAnswerLength
    /\ null_score_diff_threshold = 0
    /\ argsort_stable = TRUE
    /\ error = "none"
    /\ example_index = 0
    /\ null_score = <<>>
    /\ locals = <<>>
    /\ all_predictions = <<>>
    /\ all_nbest_json = <<>>
    /\ scores_diff_json = <<>>
    /\ result = <<>>
    /\ previous = <<>>
    /\ max_eval_samples = <<>>
    /\ \E n \in 1..MaxBatches :
       \E shapes \in [1..n -> (1..MaxBatchRows) \X (1..MaxCols)] :
          start_or_end_logits = Batches(shapes)
    /\ step = 0
    /\ logits_concat = <<>>
    /\ batch_index = 0

(* Everything of the state that create_and_fill_np_array leaves alone.     *)
unfilled == <<inputs, example_index, null_score, locals, all_predictions, all_nbest_json,
              scores_diff_json, result, previous, max_eval_samples, start_or_end_logits>>

(* Lines 1266-1268: step = 0 and the array full of -100.                   *)
CreateArray ==
    /\ pc = "fill_start"
    /\ step' = 0
    /\ logits_concat' = [r \in 1..Len(features) |-> [c \in 1..max_len |-> PadValue]]
    /\ batch_index' = 0
    /\ pc' = "fill_loop"
    /\ UNCHANGED <<error, unfilled>>

(* Lines 1270-1280: one pass of the loop over the batches.                 *)
FillBatch ==
    /\ pc = "fill_loop"
    /\ batch_index < Len(start_or_end_logits)
    /\ LET output_logit == start_or_end_logits[batch_index + 1]
           batch_size == Len(output_logit)
           cols == Len(output_logit[1])
           whole == step + batch_size < Len(features)
           source == IF whole THEN output_logit
                     ELSE RowsUpTo(output_logit, Len(features) - step)
           rows == IF whole THEN RowCount(logits_concat, step, step + batch_size)
                   ELSE RowCount(logits_concat, step, Len(logits_concat))
       IN  IF Broadcasts(source, rows)
           THEN /\ logits_concat' = Assigned(logits_concat, step, rows, cols, source)
                /\ step' = step + batch_size
                /\ batch_index' = batch_index + 1
                /\ UNCHANGED <<pc, error>>
           ELSE /\ pc' = "raised"
                /\ error' = "ValueError"
                /\ UNCHANGED <<logits_concat, step, batch_index>>
    /\ UNCHANGED unfilled

(* Line 1282: return logits_concat.                                        *)
ReturnArray ==
    /\ pc = "fill_loop"
    /\ batch_index = Len(start_or_end_logits)
    /\ pc' = "filled"
    /\ UNCHANGED <<error, step, logits_concat, batch_index, unfilled>>

NextFill == CreateArray \/ FillBatch \/ ReturnArray

SpecFill == InitFill /\ [][NextFill]_vars

(* The rows of the batches, one after the other.                           *)
AllRows == Concat(start_or_end_logits)

(* A logit row in an array row: its numbers first, then -100.              *)
Padded(row, length) ==
    [c \in 1..length |-> IF c <= Len(row) THEN row[c] ELSE PadValue]

(* The array has len(dataset) rows, and row r is the r-th row of the       *)
(* concatenated batches followed by -100, or -100 throughout when the      *)
(* batches have fewer rows.                                                *)
FilledFromBatches ==
    /\ Len(logits_concat) = Len(features)
    /\ \A r \in 1..Len(logits_concat) :
          logits_concat[r] =
              IF r <= Len(AllRows) THEN Padded(AllRows[r], max_len)
              ELSE [c \in 1..max_len |-> PadValue]

(* C30: create_and_fill_np_array fails on no sequence of batches, and the  *)
(* array it returns has len(dataset) rows of max_len columns, row r being  *)
(* the r-th row of the concatenated batches followed by -100; the rows of  *)
(* the batches beyond len(dataset) are dropped.                            *)
C30_FillsAnyBatches ==
    /\ pc # "raised"
    /\ pc = "filled" => FilledFromBatches

====
